---- MODULE Spec2Model ----
(***************************************************************************)
(* Model of src/translate/translator.rs: the Translator (loader and        *)
(* resolver) and the MessageTranslator builder.                            *)
(*                                                                         *)
(* The file system read by Translator::new is an input chosen in Init.     *)
(* Translator::new is followed statement by statement: one step per root   *)
(* entry and one per file of a language directory, so that what happens    *)
(* at a given file (skip, merge, merge failure) is a step of the model.    *)
(* The fluent-bundle calls the code makes (FluentResource::try_new,        *)
(* add_resource, get_message, format_pattern, FluentArgs::set) are         *)
(* modelled by what they do to the values the code passes them.            *)
(***************************************************************************)
EXTENDS Integers, Sequences, FiniteSets, TLC

VARIABLES
    root,              \* the entries fs::read_dir(language_directory) yields, in order
    default_language,  \* the default_language argument of Translator::new
    pc,                \* position inside Translator::new
    entries,           \* the root entries not yet taken from the iterator
    directory_name,    \* name of the language directory being loaded
    files,             \* the files of that directory not yet taken from the iterator
    bundle,            \* the Bundle being filled for that directory
    translations,      \* the HashMap<String, Bundle> built so far / owned by the Translator
    result,            \* what Translator::new returned
    mt,                \* the live MessageTranslator, or NoBuilder
    language,          \* the language argument of the translate call that made mt
    built,             \* build has returned on the live MessageTranslator
    lastSet,           \* for each argument name, the value of the last add_argument call
                       \* on mt and whether the name was set before that call
    out                \* the outcome of the last call, when it was a rendering call

vars == << root, default_language, pc, entries, directory_name, files, bundle,
           translations, result, mt, language, built, lastSet, out >>

-----------------------------------------------------------------------------
(* Bounds of the input file system *)

MaxEntries == 2
MaxFiles == 3

-----------------------------------------------------------------------------
(* Constants of the program *)

TRANSLATION_FAILED == "An error has ocurred while trying to translate the message"

\* The language_directory argument of Translator::new
RootPath == "locales"

-----------------------------------------------------------------------------
(* Values *)

None == [some |-> FALSE]
Some(x) == [some |-> TRUE, v |-> x]

\* Elements of a message pattern (fluent ast::PatternElement)
Text(s) == [t |-> "text", v |-> s]
Var(n) == [t |-> "var", v |-> n]
Msg(id) == [t |-> "msg", v |-> id]

\* Unicode isolation marks written around a placeable
FSI == "<FSI>"
PDI == "<PDI>"

\* Files a language directory can hold. kind: "ok" parses, "corrupt" does not
\* parse (msgs is then what the parser recovered), "unreadable" cannot be
\* read, "ioerr" is an Err yielded by the directory iterator.
FileMain ==
    [name |-> "main.ftl", kind |-> "ok",
     msgs |-> << [id |-> "hello", value |-> Some(<< Text("Hello, "), Var("name"), Var("title") >>)],
                 [id |-> "bye", value |-> Some(<< Text("Bye "), Msg("sig") >>)],
                 [id |-> "sig", value |-> Some(<< Text("team") >>)] >>]
FileExtra ==
    [name |-> "extra.ftl", kind |-> "ok",
     msgs |-> << [id |-> "hello", value |-> Some(<< Text("Hola "), Var("name") >>)] >>]
FileMisc ==
    [name |-> "misc.ftl", kind |-> "ok",
     msgs |-> << [id |-> "title", value |-> None],
                 [id |-> "plain", value |-> Some(<< Text("Plain") >>)] >>]
FileBroken ==
    [name |-> "broken.ftl", kind |-> "corrupt",
     msgs |-> << [id |-> "plain", value |-> Some(<< Text("Broken") >>)] >>]
FileLocked ==
    [name |-> "locked.ftl", kind |-> "unreadable", msgs |-> << >>]
FileIoErr ==
    [name |-> "", kind |-> "ioerr", msgs |-> << >>]

FileCatalog == {FileMain, FileExtra, FileMisc, FileBroken, FileLocked, FileIoErr}

\* Sequences of length n of distinct elements of S
RECURSIVE DistinctSeqs(_, _)
DistinctSeqs(S, n) ==
    IF n = 0 THEN {<< >>}
    ELSE LET shorter == DistinctSeqs(S, n - 1)
         IN  UNION {{Append(s, x) : x \in S \ {s[k] : k \in 1..Len(s)}} : s \in shorter}

UpTo(S, n) == UNION {DistinctSeqs(S, k) : k \in 0..n}

\* What fs::read_dir gives: the items in the order the iterator yields them,
\* or nothing when the directory cannot be listed
Listing(s) == [listable |-> TRUE, items |-> s]
Unlistable == [listable |-> FALSE, items |-> << >>]
\* Entries of the root directory. kind: "dir", "file" (not a directory),
\* "notype" (file_type() fails), "ioerr" (an Err yielded by the iterator).
LanguageDirs == {"en-US", "es-ES"}
OtherEntries ==
    {[name |-> "_tmp", kind |-> "dir", content |-> Listing(<< FileMain >>)],
     [name |-> "README", kind |-> "file", content |-> Listing(<< >>)],
     [name |-> "socket", kind |-> "notype", content |-> Listing(<< >>)],
     [name |-> "", kind |-> "ioerr", content |-> Listing(<< >>)]}

\* The root directories with at most MaxEntries entries, of distinct names,
\* whose language directories hold at most MaxFiles files between them
EntryOf(slot, content) ==
    IF slot \in LanguageDirs
    THEN [name |-> slot, kind |-> "dir", content |-> content[slot]]
    ELSE CHOOSE e \in OtherEntries : e.name = slot

\* The contents of the two language directories: at most MaxFiles files
\* between them, a directory that is not in the root standing as Unlistable
ContentsOf(catalog, n) ==
    IF n < 0 THEN {Unlistable} ELSE {Listing(s) : s \in DistinctSeqs(catalog, n)}

\* r is a root directory over the given entries and files
IsRootOver(r, others, catalog) ==
    \/ r = Unlistable
    \/ \E shape \in UpTo(LanguageDirs \cup {e.name : e \in others}, MaxEntries) :
          LET used == {shape[k] : k \in 1..Len(shape)}
              sizes(l) == IF l \in used THEN -1..MaxFiles ELSE {-1}
              count(n) == IF n < 0 THEN 0 ELSE n
          IN  \E n \in sizes("en-US"), m \in sizes("es-ES") :
                 /\ count(n) + count(m) <= MaxFiles
                 /\ \E a \in ContentsOf(catalog, n), b \in ContentsOf(catalog, m) :
                       r = Listing([k \in 1..Len(shape) |->
                                      EntryOf(shape[k], [l \in LanguageDirs |->
                                          IF l = "en-US" THEN a ELSE b])])

\* directory_name.parse::<LanguageIdentifier>() succeeds
IsLanguageIdentifier(name) == name \in {"en-US", "es-ES", "fr-FR", "xx-XX"}

-----------------------------------------------------------------------------
(* Results of Translator::new *)

Pending == [name |-> "PENDING", description |-> ""]
Ok == [name |-> "OK", description |-> ""]
Panic == [name |-> "PANIC", description |-> ""]
TranslatorError(name, description) == [name |-> name, description |-> description]

-----------------------------------------------------------------------------
(* fluent-bundle *)

EmptyBundle == << >>

BundleIds(b) == {b[k].id : k \in 1..Len(b)}

\* Bundle::add_resource: every entry whose id is free is added, an entry whose
\* id is taken is reported (Overriding); the call fails if any was reported.
\* Variant of add_resource that lets a later entry override an earlier one
add_resource_Overriding(b, msgs) ==
    [bundle |-> SelectSeq(b, LAMBDA e : \A k \in 1..Len(msgs) : msgs[k].id # e.id) \o msgs,
     ok |-> TRUE]

RECURSIVE add_resource(_, _)
add_resource(b, msgs) ==
    IF msgs = << >> THEN [bundle |-> b, ok |-> TRUE]
    ELSE LET e == Head(msgs)
             taken == e.id \in BundleIds(b)
             rest == add_resource(IF taken THEN b ELSE Append(b, e), Tail(msgs))
         IN  [bundle |-> rest.bundle, ok |-> rest.ok /\ ~taken]

\* Bundle::get_message
get_entry(b, id) ==
    IF id \in BundleIds(b)
    THEN b[CHOOSE k \in 1..Len(b) : b[k].id = id]
    ELSE None

-----------------------------------------------------------------------------
(* Translator::new *)

NoBuilder == [nobuilder |-> TRUE]
NoOutput == [op |-> "none", language |-> "", key |-> "", kind |-> "none", text |-> ""]

\* The inputs of the calls made on the Translator and on the MessageTranslator
Languages == {"en-US", "es-ES", "xx-XX"}
Keys == {"hello", "bye", "title", "nokey"}
ArgNames == {"name", "title"}
ArgValues == {"Alice", "Bob"}
NoArgs == [n \in ArgNames |-> None]

InitOver(others, catalog) ==
    /\ IsRootOver(root, others, catalog)
    /\ default_language \in {"en-US", "es-ES"}
    /\ pc = "read_root"
    /\ entries = << >>
    /\ directory_name = ""
    /\ files = << >>
    /\ bundle = EmptyBundle
    /\ translations = << >>
    /\ result = Pending
    /\ mt = NoBuilder
    /\ language = ""
    /\ built = FALSE
    /\ lastSet = NoArgs
    /\ out = NoOutput

Init == InitOver(OtherEntries, FileCatalog)

runtime == << mt, language, built, lastSet, out >>

Return(r) ==
    /\ result' = r
    /\ pc' = "done"

\* fs::read_dir(language_directory)
ReadRoot ==
    /\ pc = "read_root"
    /\ IF ~root.listable
       THEN /\ Return(TranslatorError("READ_DIR_ERROR",
                   "An error has ocurred while reading translations directory"))
            /\ UNCHANGED entries
       ELSE /\ entries' = root.items
            /\ pc' = "entry"
            /\ UNCHANGED result
    /\ UNCHANGED << root, default_language, directory_name, files, bundle,
                    translations, runtime >>

\* Translator::get_directory_data
get_directory_data(e) ==
    CASE e.kind = "ioerr" -> [panic |-> TRUE, err |-> None, data |-> None]
      [] e.kind = "notype" ->
            [panic |-> FALSE, data |-> None,
             err |-> TranslatorError("READ_FILE_ERROR",
                        "Could not get file type from " \o e.name)]
      [] e.kind = "file" -> [panic |-> FALSE, err |-> None, data |-> None]
      [] OTHER -> [panic |-> FALSE, err |-> None, data |-> Some(e)]

\* One iteration of `for result in translations_directory`, up to the inner loop
NextEntry ==
    /\ pc = "entry"
    /\ entries # << >>
    /\ LET d == get_directory_data(Head(entries))
       IN  /\ entries' = Tail(entries)
           /\ IF d.panic
              THEN Return(Panic) /\ UNCHANGED << directory_name, files, bundle >>
              ELSE IF d.err # None
              THEN Return(d.err) /\ UNCHANGED << directory_name, files, bundle >>
              ELSE IF d.data = None \/ ~IsLanguageIdentifier(d.data.v.name)
              THEN UNCHANGED << pc, result, directory_name, files, bundle >>
              ELSE IF ~d.data.v.content.listable
              THEN /\ Return(TranslatorError("READ_DIR_ERROR",
                          "An error has ocured while trying to read " \o RootPath))
                   /\ UNCHANGED << directory_name, files, bundle >>
              ELSE /\ directory_name' = d.data.v.name
                   /\ files' = d.data.v.content.items
                   /\ bundle' = EmptyBundle
                   /\ pc' = "file"
                   /\ UNCHANGED result
    /\ UNCHANGED << root, default_language, translations, runtime >>

\* Translator::get_file_data
get_file_data(f) ==
    CASE f.kind = "ioerr" -> [panic |-> TRUE, data |-> None]
      [] f.kind = "unreadable" -> [panic |-> FALSE, data |-> None]
      [] OTHER -> [panic |-> FALSE, data |-> Some(f)]

\* Variant of try_new that keeps what the parser recovered from a corrupt file
try_new_Recovering(f) == [ok |-> TRUE, resource |-> f.msgs]

\* FluentResource::try_new
try_new(f) ==
    IF f.kind = "ok" THEN [ok |-> TRUE, resource |-> f.msgs]
    ELSE [ok |-> FALSE, resource |-> f.msgs]

\* One iteration of `for file_result in language_directory`
NextFile ==
    /\ pc = "file"
    /\ files # << >>
    /\ LET file == get_file_data(Head(files))
       IN  /\ files' = Tail(files)
           /\ IF file.panic
              THEN Return(Panic) /\ UNCHANGED bundle
              ELSE IF file.data = None
              THEN UNCHANGED << pc, result, bundle >>
              ELSE LET resource == try_new(file.data.v)
                       added == add_resource(bundle, resource.resource)
                   IN  IF ~resource.ok
                       THEN UNCHANGED << pc, result, bundle >>
                       ELSE IF added.ok
                       THEN bundle' = added.bundle /\ UNCHANGED << pc, result >>
                       ELSE /\ Return(TranslatorError("BUNDLE_ERROR",
                                   "Could not add data from file " \o file.data.v.name
                                      \o " to bundle"))
                            /\ UNCHANGED bundle
    /\ UNCHANGED << root, default_language, entries, directory_name,
                    translations, runtime >>

\* HashMap::insert
Insert(map, key, value) ==
    [k \in DOMAIN map \cup {key} |-> IF k = key THEN value ELSE map[k]]

\* translations.insert(directory_name.to_string(), bundle)
EndOfDirectory ==
    /\ pc = "file"
    /\ files = << >>
    /\ translations' = Insert(translations, directory_name, bundle)
    /\ pc' = "entry"
    /\ UNCHANGED << root, default_language, entries, directory_name, files,
                    bundle, result, runtime >>

\* Variant of CheckDefault without the contains_key test
CheckDefault_Unchecked ==
    /\ pc = "entry"
    /\ entries = << >>
    /\ Return(Ok)
    /\ UNCHANGED << root, default_language, entries, directory_name, files,
                    bundle, translations, runtime >>

\* The check of the default language and the construction of the Translator
CheckDefault ==
    /\ pc = "entry"
    /\ entries = << >>
    /\ IF default_language \notin DOMAIN translations
       THEN Return(TranslatorError("DEFAULT_LANGUAGE_ERROR",
               default_language \o " was designated as default language, but no translations where provided for this language"))
       ELSE Return(Ok)
    /\ UNCHANGED << root, default_language, entries, directory_name, files,
                    bundle, translations, runtime >>

Load == ReadRoot \/ NextEntry \/ NextFile \/ EndOfDirectory \/ CheckDefault

loader == << root, default_language, pc, entries, directory_name, files, bundle,
             translations, result >>

\* A Translator exists: Translator::new returned Ok
Constructed == pc = "done" /\ result = Ok

-----------------------------------------------------------------------------
(* fluent-bundle: FluentArgs and format_pattern *)

\* Order of the argument names (FluentArgs keeps its entries sorted by key)
Rank(n) == IF n = "name" THEN 1 ELSE 2

Positions(args, key) == {k \in 1..Len(args) : args[k].k = key}

\* Variant of set that pushes the entry without searching for the key
set_Push(args, key, value) == Append(args, [k |-> key, v |-> value])

\* FluentArgs::set: binary search for the key, replace the entry when it is
\* found and insert at the search position when it is not
set(args, key, value) ==
    IF Positions(args, key) # {}
    THEN LET idx == CHOOSE k \in Positions(args, key) : TRUE
         IN  [args EXCEPT ![idx] = [k |-> key, v |-> value]]
    ELSE LET idx == Cardinality({k \in 1..Len(args) : Rank(args[k].k) < Rank(key)})
         IN  SubSeq(args, 1, idx) \o << [k |-> key, v |-> value] >>
             \o SubSeq(args, idx + 1, Len(args))

\* FluentArgs::get, on the Option<&FluentArgs> handed to format_pattern
get(args, key) ==
    IF args = None \/ Positions(args.v, key) = {} THEN None
    ELSE Some(args.v[CHOOSE k \in Positions(args.v, key) : TRUE].v)

\* The resolver writing one pattern: the text written and whether an error
\* was reported. b is the bundle resolving references, travelled the patterns
\* being written (cycle detection).
RECURSIVE WritePattern(_, _, _, _)
WriteElement(b, pattern, k, args, travelled) ==
    LET e == pattern[k]
        isolate == Len(pattern) > 1
    IN  CASE e.t = "text" -> [text |-> e.v, err |-> FALSE]
          [] e.t = "var" ->
                LET arg == get(args, e.v)
                    w == IF arg = None
                         THEN [text |-> "{$" \o e.v \o "}", err |-> TRUE]
                         ELSE [text |-> arg.v, err |-> FALSE]
                IN  [text |-> IF isolate THEN FSI \o w.text \o PDI ELSE w.text,
                     err |-> w.err]
          [] OTHER ->
                LET msg == get_entry(b, e.v)
                IN  IF msg = None \/ msg.value = None \/ msg.value.v \in travelled
                    THEN [text |-> "{" \o e.v \o "}", err |-> TRUE]
                    ELSE WritePattern(b, msg.value.v, args,
                                      travelled \cup {msg.value.v})

WritePattern(b, pattern, args, travelled) ==
    LET RECURSIVE from(_)
        from(k) ==
            IF k > Len(pattern) THEN [text |-> "", err |-> FALSE]
            ELSE LET w == WriteElement(b, pattern, k, args, travelled)
                     rest == from(k + 1)
                 IN  [text |-> w.text \o rest.text, err |-> w.err \/ rest.err]
    IN  from(1)

\* Bundle::format_pattern(pattern, args, &mut errors)
format_pattern(b, pattern, args) == WritePattern(b, pattern, args, {pattern})

-----------------------------------------------------------------------------
(* Translator: get_message, translate, translate_without_args *)

\* Bundle::get_message on the bundle of language l
Lookup(l, key) ==
    LET e == get_entry(translations[l], key)
    IN  IF e = None THEN None ELSE Some([src |-> l, id |-> e.id, value |-> e.value])

\* Variant of get_message that finds nothing for an unknown language
get_message_UnknownIsMissing(lang, key) ==
    IF lang \in DOMAIN translations
    THEN [message |-> IF Lookup(lang, key) = None /\ lang # default_language
                      THEN Lookup(default_language, key)
                      ELSE Lookup(lang, key),
          bundle |-> lang]
    ELSE [message |-> None, bundle |-> default_language]

\* Variant of get_message without the retry in the default bundle
get_message_NoKeyFallback(lang, key) ==
    LET selected == IF lang \in DOMAIN translations THEN lang ELSE default_language
    IN  [message |-> Lookup(selected, key), bundle |-> selected]

\* Variant of get_message that returns the bundle the message was found in
get_message_BundleOfMessage(lang, key) ==
    LET selected == IF lang \in DOMAIN translations THEN lang ELSE default_language
        message == Lookup(selected, key)
    IN  IF message = None /\ selected # default_language
        THEN [message |-> Lookup(default_language, key), bundle |-> default_language]
        ELSE [message |-> message, bundle |-> selected]

\* Translator::get_message. A bundle reference is the key of the bundle in
\* translations.
get_message(lang, key) ==
    LET known == lang \in DOMAIN translations
        selected == IF known THEN lang ELSE default_language
        message == Lookup(selected, key)
    IN  [message |-> IF message = None /\ selected # default_language
                     THEN Lookup(default_language, key)
                     ELSE message,
         bundle |-> selected]

Returned(op, lang, key, text) ==
    [op |-> op, language |-> lang, key |-> key, kind |-> "string", text |-> text]
Panicked(op, lang, key) ==
    [op |-> op, language |-> lang, key |-> key, kind |-> "panic", text |-> ""]

\* What a rendering of (message, bundle) with args gives: message.value().unwrap()
\* panics on a message that has no value
Render(op, lang, key, message, b, args) ==
    IF message = None THEN Returned(op, lang, key, TRANSLATION_FAILED)
    ELSE IF message.v.value = None THEN Panicked(op, lang, key)
    ELSE LET translated == format_pattern(translations[b], message.v.value.v, args)
         IN  IF ~translated.err THEN Returned(op, lang, key, translated.text)
             ELSE Returned(op, lang, key, TRANSLATION_FAILED)

translate(lang, key) ==
    /\ Constructed
    /\ LET found == get_message(lang, key)
       IN  mt' = [key |-> key, bundle |-> found.bundle, message |-> found.message,
                  args |-> None]
    /\ language' = lang
    /\ built' = FALSE
    /\ lastSet' = NoArgs
    /\ out' = NoOutput
    /\ UNCHANGED loader

\* Requests are followed one at a time: no MessageTranslator is live
translate_without_args(lang, key) ==
    /\ Constructed
    /\ mt = NoBuilder
    /\ LET found == get_message(lang, key)
       IN  out' = Render("translate_without_args", lang, key, found.message,
                         found.bundle, None)
    /\ UNCHANGED << loader, mt, language, built, lastSet >>

-----------------------------------------------------------------------------
(* MessageTranslator: add_argument, build *)

add_argument(key, value) ==
    /\ mt # NoBuilder
    /\ LET args == IF mt.args = None THEN << >> ELSE mt.args.v
       IN  mt' = [mt EXCEPT !.args = Some(set(args, key, value))]
    /\ lastSet' = [lastSet EXCEPT
                       ![key] = [some |-> TRUE, v |-> value, again |-> lastSet[key] # None]]
    /\ out' = NoOutput
    /\ UNCHANGED << loader, language, built >>

\* Variant of build that takes the MessageTranslator by value
build_Consuming ==
    /\ mt # NoBuilder
    /\ LET r == Render("build", language, mt.key, mt.message, mt.bundle, mt.args)
       IN  /\ out' = r
           /\ built' = (r.kind # "panic")
    /\ mt' = NoBuilder
    /\ UNCHANGED << loader, language, lastSet >>

\* build borrows the MessageTranslator; a panic unwinds and drops it
build ==
    /\ mt # NoBuilder
    /\ LET r == Render("build", language, mt.key, mt.message, mt.bundle, mt.args)
       IN  /\ out' = r
           /\ IF r.kind = "panic"
              THEN mt' = NoBuilder /\ built' = FALSE /\ lastSet' = NoArgs
                   /\ language' = ""
              ELSE built' = TRUE /\ UNCHANGED << mt, lastSet, language >>
    /\ UNCHANGED loader

\* The MessageTranslator goes out of scope
drop ==
    /\ mt # NoBuilder
    /\ mt' = NoBuilder
    /\ language' = ""
    /\ built' = FALSE
    /\ lastSet' = NoArgs
    /\ UNCHANGED << loader, out >>

Use ==
    \/ \E lang \in Languages, key \in Keys : translate(lang, key)
    \/ \E lang \in Languages, key \in Keys : translate_without_args(lang, key)
    \/ \E key \in ArgNames, value \in ArgValues : add_argument(key, value)
    \/ build
    \/ drop

\* The file systems the rendering calls are explored over: language
\* directories only, of files that parse
InitUse == InitOver({}, {FileMain, FileExtra, FileMisc})

Next == Load \/ Use

SpecNew == Init /\ [][Load]_vars

Spec == InitUse /\ [][Next]_vars

-----------------------------------------------------------------------------
(* Vocabulary of the properties *)

\* The root directory holds a directory named l
HasLanguageDir(l) ==
    /\ root.listable
    /\ \E k \in 1..Len(root.items) : root.items[k].kind = "dir" /\ root.items[k].name = l

\* The directories of the root that Translator::new loads as languages
LoadedDirs ==
    {e \in {root.items[k] : k \in 1..Len(root.items)} :
        e.kind = "dir" /\ IsLanguageIdentifier(e.name)}

Ids(msgs) == {msgs[k].id : k \in 1..Len(msgs)}

\* The bundle a language selects: its own when it is loaded, else the default one
Selected(l) == IF l \in DOMAIN translations THEN l ELSE default_language

\* The message of key k in the bundle of language l, as get_message returns it
MessageOf(l, k) ==
    LET b == translations[l]
        at == CHOOSE i \in 1..Len(b) : b[i].id = k
    IN  [some |-> TRUE, v |-> [src |-> l, id |-> k, value |-> b[at].value]]

DefaultLanguageError ==
    [name |-> "DEFAULT_LANGUAGE_ERROR",
     description |-> default_language
        \o " was designated as default language, but no translations where provided for this language"]

-----------------------------------------------------------------------------
(* Translator::new *)

\* C1: Translator::new returns Ok only when default_language is a key of the
\* loaded map (so only when the root holds a directory of that name), and when
\* the load reaches its end with default_language not a key of the map it
\* returns DEFAULT_LANGUAGE_ERROR, whatever else was loaded.
C1_DefaultLanguageLoaded ==
    /\ [](result = Ok =>
            default_language \in DOMAIN translations /\ HasLanguageDir(default_language))
    /\ [][(pc = "entry" /\ entries = << >> /\ default_language \notin DOMAIN translations)
            => result' = DefaultLanguageError /\ pc' = "done"]_vars

\* C1 witness: the default language is missing although another language loaded
C1_Witness ==
    /\ result = DefaultLanguageError
    /\ DOMAIN translations # {}
    /\ \E l \in DOMAIN translations : translations[l] # EmptyBundle

\* A root whose every entry is a directory or a file, whose language
\* directories can be listed and hold nothing but files that parse or fail to
\* parse, at most one of them parsing
OnlyCorruptAndOneGood ==
    /\ root.listable
    /\ \A k \in 1..Len(root.items) : root.items[k].kind \in {"dir", "file"}
    /\ \A e \in LoadedDirs :
          /\ e.content.listable
          /\ \A k \in 1..Len(e.content.items) : e.content.items[k].kind \in {"ok", "corrupt"}
          /\ Cardinality({k \in 1..Len(e.content.items) : e.content.items[k].kind = "ok"}) <= 1

\* The messages of the files of e that parse
GoodMessages(e) ==
    LET good == SelectSeq(e.content.items, LAMBDA f : f.kind = "ok")
    IN  IF good = << >> THEN << >> ELSE good[1].msgs

\* C6: with malformed files next to at most one well-formed file in each
\* language directory, in either order, Translator::new returns Ok when the
\* default language is there, and each language's bundle holds exactly the
\* messages of its well-formed file.
C6_CorruptFileIsolation ==
    (pc = "done" /\ OnlyCorruptAndOneGood /\ HasLanguageDir(default_language)) =>
        /\ result = Ok
        /\ DOMAIN translations = {e.name : e \in LoadedDirs}
        /\ \A e \in LoadedDirs : translations[e.name] = GoodMessages(e)

\* C6 witness: the malformed file of the default language was read before its
\* well-formed one, which defines an identifier the malformed one has too, and
\* another language loaded
C6_Witness ==
    /\ pc = "done"
    /\ result = Ok
    /\ \E e \in LoadedDirs :
          e.name = default_language /\ e.content.items = << FileBroken, FileMisc >>
    /\ \E l \in DOMAIN translations : translations[l] = FileMain.msgs

\* The next file parses and defines an identifier the bundle already holds (or
\* defines one twice)
MergeFails ==
    /\ pc = "file"
    /\ files # << >>
    /\ Head(files).kind = "ok"
    /\ \/ Ids(Head(files).msgs) \cap BundleIds(bundle) # {}
       \/ Cardinality(Ids(Head(files).msgs)) < Len(Head(files).msgs)

\* Two files of one language directory parse and define a common identifier
HasConflict ==
    \E e \in LoadedDirs :
        /\ e.content.listable
        /\ \E a, b \in 1..Len(e.content.items) :
              /\ a # b
              /\ e.content.items[a].kind = "ok"
              /\ e.content.items[b].kind = "ok"
              /\ Ids(e.content.items[a].msgs) \cap Ids(e.content.items[b].msgs) # {}

\* C7: when a resource that parsed cannot be merged into the bundle of its
\* language, Translator::new returns at once BUNDLE_ERROR naming that file; no
\* Translator is produced from a root holding such a language directory.
C7_MergeFailureIsFatal ==
    /\ [][MergeFails =>
            /\ result' = [name |-> "BUNDLE_ERROR",
                          description |-> "Could not add data from file "
                                            \o Head(files).name \o " to bundle"]
            /\ pc' = "done"
            /\ translations' = translations]_vars
    /\ [](HasConflict /\ root.listable => result # Ok)
    /\ [](result.name = "BUNDLE_ERROR" => pc = "done")

\* C7 witness: the merge failed in a language that is not the default one,
\* after the default language had loaded cleanly
C7_Witness ==
    /\ result.name = "BUNDLE_ERROR"
    /\ directory_name # default_language
    /\ default_language \in DOMAIN translations
    /\ translations[default_language] # EmptyBundle

-----------------------------------------------------------------------------
(* Translator::get_message *)

\* C2: for a language that is not a key of translations, get_message returns
\* what it returns for the default language: the default bundle and that
\* bundle's lookup of the key.
C2_UnknownLanguageFallback ==
    Constructed =>
        /\ \A l \in Languages \ DOMAIN translations : \A k \in Keys :
              /\ get_message(l, k) = get_message(default_language, k)
              /\ get_message(l, k).bundle = default_language
              /\ get_message(l, k).message =
                    IF k \in BundleIds(translations[default_language])
                    THEN MessageOf(default_language, k) ELSE None
        /\ (mt # NoBuilder /\ language \notin DOMAIN translations) =>
              /\ mt.bundle = default_language
              /\ mt.message = get_message(default_language, mt.key).message

\* C2 witness: a builder made for a language that was never loaded holds a
\* message of the default bundle
C2_Witness ==
    /\ mt # NoBuilder
    /\ language = "xx-XX"
    /\ mt.message # None
    /\ mt.message.v.src = default_language
    /\ DOMAIN translations = {"en-US", "es-ES"}

\* C3: for a loaded language and a key its bundle lacks and the default
\* bundle has, get_message returns a message, the default bundle's.
C3_MissingKeyFallback ==
    Constructed =>
        /\ \A l \in DOMAIN translations : \A k \in Keys :
              (k \in BundleIds(translations[default_language])
                  /\ k \notin BundleIds(translations[l])) =>
                 /\ get_message(l, k).message # None
                 /\ get_message(l, k).message = MessageOf(default_language, k)
        /\ (mt # NoBuilder /\ language \in DOMAIN translations
              /\ mt.key \in BundleIds(translations[default_language])
              /\ mt.key \notin BundleIds(translations[language])) =>
              mt.message = MessageOf(default_language, mt.key)

\* C3 witness: a builder made for a loaded language whose bundle lacks the key
C3_Witness ==
    /\ mt # NoBuilder
    /\ language \in DOMAIN translations
    /\ language # default_language
    /\ mt.key \notin BundleIds(translations[language])
    /\ mt.message # None
    /\ mt.message.v.src = default_language

\* The text "bye" renders to in the bundle of language l: its pattern refers
\* to the message "sig"
ByeIn(l) ==
    IF "sig" \in BundleIds(translations[l]) THEN "Bye team" ELSE TRANSLATION_FAILED

\* C9: the bundle get_message returns is the one the language selects, also
\* when the message was found by the missing-key fallback; it is the bundle
\* translate stores and the one translate_without_args and build format with.
C9_SelectedBundle ==
    Constructed =>
        /\ \A l \in Languages, k \in Keys : get_message(l, k).bundle = Selected(l)
        /\ mt # NoBuilder => mt.bundle = Selected(language)
        /\ (out.kind = "string" /\ out.key = "bye"
              /\ "bye" \in BundleIds(translations[default_language])) =>
              out.text = ByeIn(Selected(out.language))

\* C9 witness: the message came from the default bundle, the bundle is the
\* requested language's, and the reference to "sig" did not resolve in it
C9_Witness ==
    /\ mt # NoBuilder
    /\ mt.message # None
    /\ mt.message.v.src = default_language
    /\ mt.bundle = language
    /\ mt.bundle # default_language
    /\ out.op = "build"
    /\ out.key = "bye"
    /\ out.text = TRANSLATION_FAILED

-----------------------------------------------------------------------------
(* Rendering *)

InNoLanguage(k) == \A l \in DOMAIN translations : k \notin BundleIds(translations[l])

\* C4: a key that is in no loaded language renders, in translate_without_args
\* and in build, to "An error has occurred while trying to translate the
\* message".
C4_FallbackText ==
    (out.kind # "none" /\ InNoLanguage(out.key)) =>
        /\ out.kind = "string"
        /\ out.text = "An error has occurred while trying to translate the message"

\* C5: translate_without_args and build always return a string.
C5_RenderingNeverFails == out.kind # "panic"

-----------------------------------------------------------------------------
(* MessageTranslator *)

Args == IF mt.args = None THEN << >> ELSE mt.args.v

Value(n) == lastSet[n].v

\* What "hello" renders to with the last values set: the pattern of main.ftl
\* uses $name and $title, the one of extra.ftl $name
HelloWithLastValues ==
    IF mt.message.v.value.v = FileMain.msgs[1].value.v
    THEN IF lastSet["name"] # None /\ lastSet["title"] # None
         THEN "Hello, " \o FSI \o Value("name") \o PDI \o FSI \o Value("title") \o PDI
         ELSE TRANSLATION_FAILED
    ELSE IF lastSet["name"] # None
         THEN "Hola " \o FSI \o Value("name") \o PDI
         ELSE TRANSLATION_FAILED

\* C8: after any add_argument calls the arguments hold one value per name set,
\* the last one, and none for a name never set; build renders with them.
C8_AddArgumentOverwrites ==
    mt # NoBuilder =>
        /\ \A n \in ArgNames :
              IF lastSet[n] = None
              THEN Positions(Args, n) = {}
              ELSE /\ Cardinality(Positions(Args, n)) = 1
                   /\ \A k \in Positions(Args, n) : Args[k].v = Value(n)
        /\ Len(Args) = Cardinality({n \in ArgNames : lastSet[n] # None})
        /\ (out.op = "build" /\ out.kind = "string" /\ mt.key = "hello"
              /\ mt.message # None) =>
              out.text = HelloWithLastValues

\* C8 witness: both names were set, "name" more than once, and build rendered
\* the last values
C8_Witness ==
    /\ mt # NoBuilder
    /\ lastSet["name"] # None
    /\ lastSet["name"].again
    /\ lastSet["title"] # None
    /\ out.op = "build"
    /\ out.text = "Hello, <FSI>Bob<PDI><FSI>Alice<PDI>"

\* C10 as stated: build is terminal, no add_argument changes a builder that
\* was built.
C10_BuildIsTerminal ==
    [][built => (mt' = mt \/ mt' = NoBuilder \/ ~built')]_vars

\* C10 amended: add_argument can be called any number of times, before and
\* after build; a build that returns leaves the builder as it was, and
\* add_argument and build can be called on it again.
C10_BuildBorrows ==
    /\ [](built =>
            /\ mt # NoBuilder
            /\ ENABLED build
            /\ \A n \in ArgNames, v \in ArgValues : ENABLED add_argument(n, v))
    /\ [](mt # NoBuilder =>
            \A n \in ArgNames, v \in ArgValues : ENABLED add_argument(n, v))
    /\ [][(out'.op = "build" /\ out'.kind = "string" /\ built' /\ (out' # out \/ ~built))
            => mt' = mt]_vars

\* C10 witness: an argument was added to a builder after build returned on it
C10_Witness ==
    /\ built
    /\ mt # NoBuilder
    /\ out = NoOutput
    /\ mt.args # None

====
